---- MODULE Spec2Model ----
(***************************************************************************)
(* A model of the dependency-graph core of orbital:                        *)
(*   query_graph/graph.rs  ValidGraphData, DiAcylcicGraph, QueryGraph      *)
(*   query_graph/query.rs  QueryCollection, ResourceIdMap                  *)
(*   query_graph/mod.rs    GraphMeta, generate_graph_from_collection       *)
(*                                                                         *)
(* Spec          one call of a constructor of graph.rs on an arbitrary     *)
(*               input, followed by the read-only queries of QueryGraph.   *)
(* SpecRegistry  any sequence of QueryCollection::add_queries calls.       *)
(* SpecGraphMeta any sequence of add_queries calls, then GraphMeta::new.   *)
(***************************************************************************)
EXTENDS Integers, Sequences, FiniteSets, TLC

VARIABLES
    pc,            \* position of the caller of graph.rs: which call was made
    node_ids,      \* the declared node list handed to the call (Vec<NodeId>)
    edges,         \* the edge list handed to the call (Vec<(NodeId, NodeId)>)
    valid,         \* Option<ValidGraphData> returned by the validator
    graph,         \* Option<QueryGraph> returned by the constructor
    root_nodes,    \* the Vec returned by get_root_nodes
    lookup,        \* the last get_index / get_id round trip: [id, index, back]
    query_map,     \* QueryCollection.query_map: name -> QueryKind
    query_id_map,  \* QueryCollection.query_id_map: [inner, reverse]
    last_parsed,   \* names of the entries the last add_queries call parsed
    explicit,      \* names of the entries any add_queries call parsed
    referenced,    \* names, not in explicit, in the dependencies of a parsed entry
    scanned,       \* names, not in explicit, that a stub scan saw in the
                   \* dependencies of a stored Query
    last_writes,   \* for each name the last add_queries call parsed: how many
                   \* entries of the batch it parsed under the name, and the
                   \* dependencies of the last of them
    last_failed,   \* names that the last add_queries call found only in entries
                   \* it failed to parse
    without_failed \* the collection the last add_queries call makes of its
                   \* batch when the entries that fail to parse are left out

vars == << pc, node_ids, edges, valid, graph, root_nodes, lookup,
           query_map, query_id_map, last_parsed, explicit, referenced, scanned,
           last_writes, last_failed, without_failed >>

graph_vars == << pc, node_ids, edges, valid, graph, root_nodes, lookup >>

history_vars ==
    << last_parsed, explicit, referenced, scanned, last_writes, last_failed,
       without_failed >>

registry_vars ==
    << query_map, query_id_map, last_parsed, explicit, referenced, scanned,
       last_writes, last_failed, without_failed >>

(***************************************************************************)
(* Bounds of the model.                                                    *)
(***************************************************************************)
\* NodeId is u64 (graph.rs:10) and ValidGraphData holds u8 (graph.rs:90); the
\* ids of the model fit both.  The graphs of the model stay far below the
\* capacity of the u8 index type IxType (graph.rs:11).
MaxId == 3          \* node ids are 1..MaxId

MaxEdges == 2       \* longest edge list handed to a constructor

NodeIds == 1..MaxId

MaxDeclared == MaxId    \* longest declared node list

\* All sequences over S of length at most n.
SeqUpTo(S, n) == UNION { [1..k -> S] : k \in 0..n }

EdgeLists == SeqUpTo(NodeIds \X NodeIds, MaxEdges)

NodeLists == SeqUpTo(NodeIds, MaxDeclared)

Range(s) == { s[i] : i \in DOMAIN s }

(***************************************************************************)
(* Option<T>                                                               *)
(***************************************************************************)
None == [is_some |-> FALSE]

Some(v) == [is_some |-> TRUE, value |-> v]

(***************************************************************************)
(* Collections of the standard library, as the code uses them.             *)
(***************************************************************************)
\* The orders in which iterating a hash set S can yield its elements.
IterOrders(S) == { s \in [1..Cardinality(S) -> S] : Range(s) = S }

\* One iteration order of the hash set S (the one the build happens to have).
RECURSIVE IterOrder(_)
IterOrder(S) ==
    IF S = {} THEN << >>
    ELSE LET m == CHOOSE x \in S : \A y \in S : y <= x
         IN  << m >> \o IterOrder(S \ {m})

\* Insert x into the ascending sequence s, keeping it ascending.
RECURSIVE InsertSorted(_, _)
InsertSorted(x, s) ==
    IF s = << >> THEN << x >>
    ELSE IF x <= Head(s) THEN << x >> \o s
    ELSE << Head(s) >> \o InsertSorted(x, Tail(s))

SortKeepsOrder(s) == s

\* slice::sort_unstable on a Vec of integers: the ascending rearrangement.
RECURSIVE sort_unstable(_)
sort_unstable(s) ==
    IF s = << >> THEN << >>
    ELSE InsertSorted(Head(s), sort_unstable(Tail(s)))

(***************************************************************************)
(* ValidGraphData (graph.rs:89-148)                                        *)
(***************************************************************************)
\* The fold of graph.rs:97-103: every id that is an endpoint of some edge.
distinct_edge_ids(es) ==
    { es[i][1] : i \in DOMAIN es } \cup { es[i][2] : i \in DOMAIN es }

MismatchesReversed(ns, es) == Range(ns) \ distinct_edge_ids(es)

\* graph.rs:104-105: ids the edges name that the declared list lacks.
mismatches(ns, es) == distinct_edge_ids(es) \ Range(ns)

\* graph.rs:111: declared ids that no edge names.
orphan_nodes(ns, es) == Range(ns) \ distinct_edge_ids(es)

ValidNodesKeepOrphans(ns, es) == sort_unstable(IterOrder(Range(ns)))

\* graph.rs:115-123: the declared ids less the orphans, collected and sorted.
valid_nodes(ns, es) ==
    sort_unstable(IterOrder({ n \in Range(ns) : n \notin orphan_nodes(ns, es) }))

IsInvalidDataNever(ns, es) == FALSE

\* graph.rs:124: the "Invalid data" test.
is_invalid_data(ns, es) == valid_nodes(ns, es) = << >> \/ Range(ns) = {}

\* ValidGraphData::new_from_id_edge_pairs
new_from_id_edge_pairs(ns, es) ==
    IF mismatches(ns, es) # {} THEN None
    ELSE IF is_invalid_data(ns, es) THEN None
    ELSE Some([nodes |-> valid_nodes(ns, es), edges |-> es])

\* ValidGraphData::new_from_edges, with `order` the order in which the hash
\* set of endpoints is iterated into the node_ids vector.
ValidGraphData_new_from_edges(es, order) == new_from_id_edge_pairs(order, es)

(***************************************************************************)
(* DiAcylcicGraph (graph.rs:60-87).  A petgraph graph is modelled by its   *)
(* node weights in index order (index i is position i + 1) and its edges   *)
(* as pairs of indices in insertion order.                                 *)
(***************************************************************************)
\* Graph::add_node: the weight is appended, its index is the old node count.
add_node(g, n) == [g EXCEPT !.nodes = Append(@, n)]

AddEdgeAlways(g, a, b) == [g EXCEPT !.edges = Append(@, << a, b >>)]

\* Graph::update_edge: adds the edge a -> b unless the graph holds it already.
update_edge(g, a, b) ==
    IF \E i \in DOMAIN g.edges : g.edges[i] = << a, b >> THEN g
    ELSE [g EXCEPT !.edges = Append(@, << a, b >>)]

\* graph.rs:69-76: one graph node per entry of v.nodes, in order.
RECURSIVE add_nodes(_, _)
add_nodes(g, ns) ==
    IF ns = << >> THEN g ELSE add_nodes(add_node(g, Head(ns)), Tail(ns))

NodeIdMapOneBased(ns) ==
    [n \in Range(ns) |-> CHOOSE i \in DOMAIN ns : ns[i] = n]

\* graph.rs:69-76: the map from each node to the index add_node gave it.
node_id_map(ns) ==
    [n \in Range(ns) |-> (CHOOSE i \in DOMAIN ns : ns[i] = n) - 1]

\* graph.rs:77-81: one update_edge per (src, dest) pair, in order.
RECURSIVE add_edges(_, _, _)
add_edges(g, m, es) ==
    IF es = << >> THEN g
    ELSE add_edges(update_edge(g, m[Head(es)[1]], m[Head(es)[2]]), m, Tail(es))

\* graph.rs:78-79: indexing node_id_map with an id it does not hold panics.
index_panics(v) == \E n \in distinct_edge_ids(v.edges) : n \notin Range(v.nodes)

\* impl From<ValidGraphData> for DiAcylcicGraph (when no index panics)
DiAcylcicGraph_from(v) ==
    [raw_graph    |-> add_edges(add_nodes([nodes |-> << >>, edges |-> << >>], v.nodes),
                                node_id_map(v.nodes), v.edges),
     lookup_table |-> node_id_map(v.nodes)]

\* The indices of the nodes of g.
node_indices(g) == 0..(Len(g.nodes) - 1)

\* The indices an edge of g leads to from index a.
neighbors(g, a) == { e[2] : e \in { x \in Range(g.edges) : x[1] = a } }

\* Depth-first search from the indices in `frontier`; `path` holds the indices
\* on the search stack.  TRUE when an edge leads back into the stack.
RECURSIVE has_back_edge(_, _, _)
has_back_edge(g, frontier, path) ==
    \E a \in frontier :
        \/ a \in path
        \/ has_back_edge(g, neighbors(g, a), path \cup {a})

IsCyclicDirectedSelfLoopsOnly(g) == \E e \in Range(g.edges) : e[1] = e[2]

\* petgraph::algo::is_cyclic_directed
is_cyclic_directed(g) == has_back_edge(g, node_indices(g), {})

(***************************************************************************)
(* QueryGraph (graph.rs:13-59)                                             *)
(***************************************************************************)
\* The call did not return: it panicked.
Panicked == [is_some |-> FALSE, panicked |-> TRUE]

NewFromValidDataNoCycleCheck(v) ==
    IF index_panics(v) THEN Panicked
    ELSE Some([inner        |-> DiAcylcicGraph_from(v).raw_graph,
               lookup_table |-> DiAcylcicGraph_from(v).lookup_table])

\* QueryGraph::new_from_valid_data
new_from_valid_data(v) ==
    IF index_panics(v) THEN Panicked
    ELSE LET dag == DiAcylcicGraph_from(v)
         IN  IF is_cyclic_directed(dag.raw_graph) THEN None
             ELSE Some([inner        |-> dag.raw_graph,
                        lookup_table |-> dag.lookup_table])

\* Option::and_then
and_then_new_from_valid_data(o) ==
    IF o.is_some THEN new_from_valid_data(o.value) ELSE None

\* QueryGraph::new_from_edges
QueryGraph_new_from_edges(es, order) ==
    and_then_new_from_valid_data(ValidGraphData_new_from_edges(es, order))

\* QueryGraph::new_from_ids_and_edges
new_from_ids_and_edges(ns, es) ==
    and_then_new_from_valid_data(new_from_id_edge_pairs(ns, es))

\* QueryGraph::get_index
get_index(q, node_id) ==
    IF node_id \in DOMAIN q.lookup_table THEN Some(q.lookup_table[node_id])
    ELSE None

\* QueryGraph::get_id: the first entry of the table whose value is the index.
get_id(q, node_index) ==
    IF \E k \in DOMAIN q.lookup_table : q.lookup_table[k] = node_index
    THEN Some(CHOOSE k \in DOMAIN q.lookup_table : q.lookup_table[k] = node_index)
    ELSE None

ExternalsOutgoing(g) ==
    SelectSeq([i \in 1..Len(g.nodes) |-> i - 1],
              LAMBDA a : ~ \E e \in Range(g.edges) : e[1] = a)

\* Graph::externals(Direction::Incoming): the indices, in index order, of the
\* nodes that no edge leads to.
externals_incoming(g) ==
    SelectSeq([i \in 1..Len(g.nodes) |-> i - 1],
              LAMBDA a : ~ \E e \in Range(g.edges) : e[2] = a)

\* filter_map over a sequence of indices with get_id (graph.rs:56).
RECURSIVE filter_map_get_id(_, _)
filter_map_get_id(q, idxs) ==
    IF idxs = << >> THEN << >>
    ELSE LET r == get_id(q, Head(idxs))
         IN  (IF r.is_some THEN << r.value >> ELSE << >>)
                 \o filter_map_get_id(q, Tail(idxs))

\* QueryGraph::get_root_nodes
get_root_nodes(q) == filter_map_get_id(q, externals_incoming(q.inner))

(***************************************************************************)
(* QueryCollection (query.rs:60-220).  A resource name is a number of      *)
(* Names.  A RawQuery is modelled by its name and by what the front end    *)
(* (parse, resolve, extract_dependent_tables) makes of its query_string:   *)
(* an error, or the list of the table names the query reads.               *)
(***************************************************************************)
MaxName == 3        \* resource names are 1..MaxName

MaxDeps == 1        \* longest dependency list of a query

MaxBatch == 2       \* longest batch handed to add_queries

Names == 1..MaxName

DepLists == SeqUpTo(Names, MaxDeps)

\* What prepare_query can make of a RawQuery.
RawQueries ==
    [name : Names, parsed : { None } \cup { Some(d) : d \in DepLists }]

Batches == SeqUpTo(RawQueries, MaxBatch)

MaxJoinDeps == 2    \* longest dependency list of a query handed over alone

\* The RawQueries with a longer dependency list than those of Batches.
JoinQueries ==
    [name : Names,
     parsed : { Some(d) : d \in SeqUpTo(Names, MaxJoinDeps) \ DepLists }]

\* The batches of one such query.
JoinBatches == { << q >> : q \in JoinQueries }

\* xxh3_64 of a name: distinct names are taken to get distinct ids.  Like the
\* NodeIds, the ids of the model fit u64 and u8.
xxh3_64(name) == 100 + 7 * name

InsertDropsOthers(m, k, v) == (k :> v)

InsertKeepsEntry(m, k, v) == m @@ (k :> v)

\* HashMap::insert: the entry for k is added or replaced.
insert(m, k, v) == (k :> v) @@ m

InsertResourceReverseOnly(r, resource_name, resource_id) ==
    [inner   |-> r.inner,
     reverse |-> insert(r.reverse, resource_id, resource_name)]

\* ResourceIdMap::insert_resource
insert_resource(r, resource_name, resource_id) ==
    [inner   |-> insert(r.inner, resource_name, resource_id),
     reverse |-> insert(r.reverse, resource_id, resource_name)]

\* QueryCollection::new
QueryCollection_new ==
    [query_map    |-> << >>,
     query_id_map |-> [inner |-> << >>, reverse |-> << >>]]

\* Query::new
Query_new(id, name, dependencies) ==
    [kind |-> "Query", id |-> id, name |-> name, dependencies |-> dependencies]

\* The TableQuery literal of query.rs:173-176.
TableQuery_new(id, name) == [kind |-> "TableQuery", id |-> id, name |-> name]

\* QueryCollection::prepare_query: the front end's error, or the Query.
prepare_query(raw) ==
    IF raw.parsed.is_some
    THEN Some(Query_new(xxh3_64(raw.name), raw.name, raw.parsed.value))
    ELSE None

\* query.rs:146-149: the queries of the batch that the front end accepts.
ParsedQueriesUntilFailure(queries) ==
    LET ok(n) == \A i \in 1..n : queries[i].parsed.is_some
        n     == CHOOSE k \in 0..Len(queries) :
                     ok(k) /\ (k < Len(queries) => ~ ok(k + 1))
    IN  [i \in 1..n |-> prepare_query(queries[i]).value]

RECURSIVE parsed_queries(_)
parsed_queries(queries) ==
    IF queries = << >> THEN << >>
    ELSE LET r == prepare_query(Head(queries))
         IN  (IF r.is_some THEN << r.value >> ELSE << >>)
                 \o parsed_queries(Tail(queries))

\* query.rs:151-155: every parsed query is stored, in order.
RECURSIVE store_parsed(_, _)
store_parsed(c, qs) ==
    IF qs = << >> THEN c
    ELSE LET q == Head(qs)
         IN  store_parsed(
                 [query_map    |-> insert(c.query_map, q.name, q),
                  query_id_map |-> insert_resource(c.query_id_map, q.name, q.id)],
                 Tail(qs))

TableNamesNoFilter(c) ==
    UNION { Range(c.query_map[n].dependencies) :
                n \in { k \in DOMAIN c.query_map : c.query_map[k].kind = "Query" } }

\* query.rs:156-169: the names in the dependencies of the stored Queries that
\* are no key of query_map.
table_names(c) ==
    { y \in UNION { Range(c.query_map[n].dependencies) :
                        n \in { k \in DOMAIN c.query_map :
                                    c.query_map[k].kind = "Query" } } :
          y \notin DOMAIN c.query_map }

\* query.rs:170-180: one TableQuery per table name, in the order given.
RECURSIVE add_table_queries(_, _)
add_table_queries(c, ts) ==
    IF ts = << >> THEN c
    ELSE LET t  == Head(ts)
             id == xxh3_64(t)
         IN  add_table_queries(
                 [query_map    |-> insert(c.query_map, t, TableQuery_new(id, t)),
                  query_id_map |-> insert_resource(c.query_id_map, t, id)],
                 Tail(ts))

AddQueriesWithoutStubs(c, queries) == store_parsed(c, parsed_queries(queries))

\* QueryCollection::add_queries
add_queries(c, queries) ==
    LET stored == store_parsed(c, parsed_queries(queries))
    IN  add_table_queries(stored, IterOrder(table_names(stored)))

\* The names of the entries of a batch that the front end accepts.
ParsedNames(queries) ==
    { queries[i].name : i \in { j \in DOMAIN queries : queries[j].parsed.is_some } }

\* The names in the dependency lists of the accepted entries of a batch.
ReferencedNames(queries) ==
    UNION { Range(queries[i].parsed.value) :
                i \in { j \in DOMAIN queries : queries[j].parsed.is_some } }

\* The accepted entry of the batch that is stored last under the name n.
LastWrite(queries, n) ==
    queries[CHOOSE i \in DOMAIN queries :
                /\ queries[i].name = n
                /\ queries[i].parsed.is_some
                /\ \A j \in DOMAIN queries :
                       (queries[j].name = n /\ queries[j].parsed.is_some) => j <= i]

\* The names a stub scan sees after the batch is stored on top of the map m:
\* the dependencies of the last write of each accepted name, and those of the
\* Queries of m that the batch does not overwrite.
ScannedNames(m, queries) ==
    UNION ( { Range(LastWrite(queries, n).parsed.value) : n \in ParsedNames(queries) }
            \cup { Range(m[n].dependencies) :
                       n \in { k \in DOMAIN m : /\ m[k].kind = "Query"
                                                /\ k \notin ParsedNames(queries) } } )

\* For each accepted name of the batch: how many accepted entries carry it,
\* and the dependencies of the last of them.
Writes(queries) ==
    [n \in ParsedNames(queries) |->
        [count        |-> Cardinality({ i \in DOMAIN queries :
                                           /\ queries[i].name = n
                                           /\ queries[i].parsed.is_some }),
         dependencies |-> LastWrite(queries, n).parsed.value]]

\* The names of the entries of a batch that the front end rejects.
FailedNames(queries) ==
    { queries[i].name : i \in { j \in DOMAIN queries : ~ queries[j].parsed.is_some } }

\* The batch less the entries that the front end rejects.
WithoutFailed(queries) == SelectSeq(queries, LAMBDA q : q.parsed.is_some)

RegistryInit ==
    /\ query_map = QueryCollection_new.query_map
    /\ query_id_map = QueryCollection_new.query_id_map
    /\ last_parsed = {}
    /\ explicit = {}
    /\ referenced = {}
    /\ scanned = {}
    /\ last_writes = << >>
    /\ last_failed = {}
    /\ without_failed = QueryCollection_new

\* The owner of the collection calls add_queries(queries), which it can do
\* until it has moved the collection into a GraphMeta (mod.rs:16).
\* last_parsed, explicit, referenced, scanned, last_writes, last_failed and
\* without_failed record the history of the calls.
AddQueries ==
    /\ pc = "start"
    /\ \E queries \in Batches :
        LET c == add_queries([query_map |-> query_map, query_id_map |-> query_id_map],
                             queries)
        IN  /\ query_map' = c.query_map
            /\ query_id_map' = c.query_id_map
            /\ last_parsed' = ParsedNames(queries)
            /\ explicit' = explicit \cup ParsedNames(queries)
            /\ referenced' = (referenced \cup ReferencedNames(queries)) \ explicit'
            /\ scanned' = (scanned \cup ScannedNames(query_map, queries)) \ explicit'
            /\ last_writes' = Writes(queries)
            /\ last_failed' = FailedNames(queries) \ ParsedNames(queries)
            /\ without_failed' =
                   add_queries([query_map |-> query_map, query_id_map |-> query_id_map],
                               WithoutFailed(queries))
    /\ UNCHANGED graph_vars

\* The same call where the history of the calls is of no interest: the batch
\* is one of Batches or one of JoinBatches, and the history is not recorded.
AddQueriesOrJoins ==
    /\ pc = "start"
    /\ \E queries \in Batches \cup JoinBatches :
        LET c == add_queries([query_map |-> query_map, query_id_map |-> query_id_map],
                             queries)
        IN  /\ query_map' = c.query_map
            /\ query_id_map' = c.query_id_map
    /\ UNCHANGED << graph_vars, history_vars >>

(***************************************************************************)
(* GraphMeta (mod.rs:10-41).  QueryKind::id, QueryKind::name and           *)
(* QueryCollection::get_query_depedencies are called at mod.rs:29 and      *)
(* defined in no source file; they are modelled after section 2 of the     *)
(* specification (the registry emits a (dependency, dependent) pair of ids *)
(* for every dependency of a query; a TableQuery has no dependencies).     *)
(***************************************************************************)
\* QueryKind::id
QueryKind_id(node) == node.id

\* QueryKind::name
QueryKind_name(node) == node.name

\* QueryCollection::get_query_depedencies: the ids that query_id_map records
\* for the names in the dependency list of the entry stored under `name`.
get_query_depedencies(c, name) ==
    IF name \in DOMAIN c.query_map /\ c.query_map[name].kind = "Query"
    THEN LET deps  == c.query_map[name].dependencies
             known == SelectSeq(deps, LAMBDA d : d \in DOMAIN c.query_id_map.inner)
         IN  [i \in DOMAIN known |-> c.query_id_map.inner[known[i]]]
    ELSE << >>

GenEdgePairsReversed(src_node, node_deps) ==
    [i \in DOMAIN node_deps |-> << src_node, node_deps[i] >>]

\* gen_edge_pairs: one (dependency, dependent) pair per dependency.
gen_edge_pairs(src_node, node_deps) ==
    [i \in DOMAIN node_deps |-> << node_deps[i], src_node >>]

\* mod.rs:27-31: the pairs of every entry of the collection, concatenated in
\* the order `names` in which the hash map yields its values.
RECURSIVE collect_edges(_, _)
collect_edges(c, names) ==
    IF names = << >> THEN << >>
    ELSE LET node == c.query_map[Head(names)]
         IN  gen_edge_pairs(QueryKind_id(node),
                            get_query_depedencies(c, QueryKind_name(node)))
                 \o collect_edges(c, Tail(names))

\* generate_graph_from_collection, with `names` the iteration order of the
\* hash map and `order` that of the hash set of edge endpoints.
generate_graph_from_collection(c, names, order) ==
    QueryGraph_new_from_edges(collect_edges(c, names), order)

\* GraphMeta::new
GraphMeta_new(query_collection, names, order) ==
    LET g == generate_graph_from_collection(query_collection, names, order)
    IN  IF g.is_some THEN Some([graph |-> g.value, query |-> query_collection])
        ELSE None

(***************************************************************************)
(* Spec: one call into graph.rs, then the queries of the graph.            *)
(***************************************************************************)
NoLookup == [id |-> 0, index |-> None, back |-> None]

\* A caller holds an edge list and has called nothing yet.
GraphInit ==
    /\ pc = "start"
    /\ node_ids = << >>
    /\ edges \in EdgeLists
    /\ valid = None
    /\ graph = None
    /\ root_nodes = << >>
    /\ lookup = NoLookup

Init == GraphInit /\ RegistryInit

\* The caller runs QueryGraph::new_from_ids_and_edges(ns, edges); `valid`
\* keeps what ValidGraphData::new_from_id_edge_pairs returned to it
\* (graph.rs:37).
NewFromIdsAndEdges ==
    /\ pc = "start"
    /\ \E ns \in NodeLists :
        /\ node_ids' = ns
        /\ valid' = new_from_id_edge_pairs(ns, edges)
        /\ graph' = and_then_new_from_valid_data(valid')
    /\ pc' = "new_from_ids_and_edges"
    /\ UNCHANGED << edges, root_nodes, lookup, registry_vars >>

\* The caller runs QueryGraph::new_from_edges(edges); `valid` keeps what
\* ValidGraphData::new_from_edges returned to it (graph.rs:30), and node_ids
\* the vector of endpoints it built (graph.rs:136-145).
NewFromEdges ==
    /\ pc = "start"
    /\ \E order \in IterOrders(distinct_edge_ids(edges)) :
        /\ node_ids' = order
        /\ valid' = ValidGraphData_new_from_edges(edges, order)
        /\ graph' = and_then_new_from_valid_data(valid')
    /\ pc' = "QueryGraph_new_from_edges"
    /\ UNCHANGED << edges, root_nodes, lookup, registry_vars >>

Constructed == pc \in {"new_from_ids_and_edges", "QueryGraph_new_from_edges"}

\* The owner of a constructed graph asks for its root nodes.
GetRootNodes ==
    /\ Constructed
    /\ graph.is_some
    /\ root_nodes' = get_root_nodes(graph.value)
    /\ pc' = "get_root_nodes"
    /\ UNCHANGED << node_ids, edges, valid, graph, lookup, registry_vars >>

\* The owner of a constructed graph looks an id up and the index back.
GetIndexGetId ==
    /\ Constructed
    /\ graph.is_some
    /\ \E id \in NodeIds :
        LET ix == get_index(graph.value, id)
        IN  lookup' = [id    |-> id,
                       index |-> ix,
                       back  |-> IF ix.is_some THEN get_id(graph.value, ix.value)
                                 ELSE None]
    /\ pc' = "get_id"
    /\ UNCHANGED << node_ids, edges, valid, graph, root_nodes, registry_vars >>

Next ==
    \/ NewFromIdsAndEdges
    \/ NewFromEdges
    \/ GetRootNodes
    \/ GetIndexGetId

Spec == Init /\ [][Next]_vars

\* Any sequence of add_queries calls on one QueryCollection.
RegistryNext == AddQueries

\* A new QueryCollection; nothing of graph.rs is in use.
NewCollectionInit == Init /\ edges = << >>

SpecRegistry == NewCollectionInit /\ [][RegistryNext]_vars

\* The owner of the collection calls GraphMeta::new(query_collection).  The
\* graph variables keep what the call computed on its way: the edge list
\* (mod.rs:27-31), the vector of endpoints, the validated data and the graph.
GraphMetaNew ==
    /\ pc = "start"
    /\ \E names \in IterOrders(DOMAIN query_map) :
        LET c  == [query_map |-> query_map, query_id_map |-> query_id_map]
            es == collect_edges(c, names)
        IN  \E order \in IterOrders(distinct_edge_ids(es)) :
                /\ edges' = es
                /\ node_ids' = order
                /\ valid' = ValidGraphData_new_from_edges(es, order)
                /\ graph' = generate_graph_from_collection(c, names, order)
    /\ pc' = "GraphMeta_new"
    /\ UNCHANGED << root_nodes, lookup, registry_vars >>

GraphMetaNext ==
    \/ AddQueriesOrJoins
    \/ GraphMetaNew

\* Any sequence of add_queries calls, and then GraphMeta::new.
SpecGraphMeta == NewCollectionInit /\ [][GraphMetaNext]_vars

(***************************************************************************)
(* Properties of graph.rs, checked under Spec.                             *)
(***************************************************************************)
\* The ids that occur as an endpoint of an edge of the list es.
EndpointsOf(es) ==
    { n \in NodeIds : \E i \in DOMAIN es : es[i][1] = n \/ es[i][2] = n }

\* The ids reachable from the set S along the pairs of E (S included).
RECURSIVE ReachFrom(_, _)
ReachFrom(E, S) ==
    LET T == S \cup { e[2] : e \in { x \in E : x[1] \in S } }
    IN  IF T = S THEN S ELSE ReachFrom(E, T)

\* The relation E has a directed cycle (a self-loop is one).
HasDirectedCycle(E) == \E e \in E : e[1] \in ReachFrom(E, {e[2]})

\* The edges of a QueryGraph as pairs of node ids (weights).
IdEdgesOf(q) ==
    { << q.inner.nodes[e[1] + 1], q.inner.nodes[e[2] + 1] >> :
          e \in Range(q.inner.edges) }

StrictlyAscending(s) == \A i, j \in DOMAIN s : i < j => s[i] < s[j]

\* C1: a graph returned by a constructor has no directed cycle (self-loops
\* included), and for an input edge list with a directed cycle the
\* constructor returns no graph at all.
C1_Acyclic ==
    Constructed =>
        /\ graph.is_some => ~ HasDirectedCycle(IdEdgesOf(graph.value))
        /\ HasDirectedCycle(Range(edges)) => ~ graph.is_some

\* A valid input whose only defect is a cycle through two or more nodes.
C1_Witness ==
    /\ pc = "new_from_ids_and_edges"
    /\ valid.is_some
    /\ \A i \in DOMAIN edges : edges[i][1] # edges[i][2]
    /\ HasDirectedCycle(Range(edges))
    /\ graph = None

C3_DanglingRejected ==
    ( /\ pc = "new_from_ids_and_edges"
      /\ \E n \in EndpointsOf(edges) : n \notin Range(node_ids) )
    => valid = None /\ graph = None

\* A non-empty declared list and an edge with one declared, one undeclared end.
C3_Witness ==
    /\ pc = "new_from_ids_and_edges"
    /\ node_ids # << >>
    /\ \E i \in DOMAIN edges :
        /\ edges[i][1] \in Range(node_ids)
        /\ edges[i][2] \notin Range(node_ids)
    /\ valid = None
    /\ graph = None

\* C4: a result of the validator has a strictly ascending node list that is
\* exactly the set of ids occurring as an edge endpoint; declared ids that
\* occur in no edge are removed and do not make validation fail.
C4_SortedEndpoints ==
    Constructed =>
        /\ valid.is_some =>
            /\ StrictlyAscending(valid.value.nodes)
            /\ Range(valid.value.nodes) = EndpointsOf(edges)
        /\ ( /\ edges # << >>
             /\ EndpointsOf(edges) \subseteq Range(node_ids) ) => valid.is_some

\* A declared list with a duplicate, out of order, and with an orphan.
C4_Witness ==
    /\ pc = "new_from_ids_and_edges"
    /\ \E i, j \in DOMAIN node_ids : i < j /\ node_ids[i] = node_ids[j]
    /\ \E i, j \in DOMAIN node_ids : i < j /\ node_ids[i] > node_ids[j]
    /\ Range(node_ids) \ EndpointsOf(edges) # {}
    /\ valid.is_some

\* C5: for an empty edge list both validators return no result, whatever the
\* declared node list; for a non-empty edge list new_from_edges never fails.
C5_EmptyRejected ==
    /\ (Constructed /\ edges = << >>) => valid = None
    /\ (pc = "QueryGraph_new_from_edges" /\ edges # << >>) => valid.is_some

\* Declared nodes, no edges: every declared node is an orphan.
C5_Witness ==
    /\ pc = "new_from_ids_and_edges"
    /\ edges = << >>
    /\ Cardinality(Range(node_ids)) >= 2
    /\ valid = None

\* C6: get_root_nodes returns exactly the ids of the nodes without incoming
\* edge, each once, in ascending order, whatever the order of the input.
C6_RootNodes ==
    pc = "get_root_nodes" =>
        /\ StrictlyAscending(root_nodes)
        /\ Range(root_nodes) =
               { n \in EndpointsOf(edges) :
                     ~ \E i \in DOMAIN edges : edges[i][2] = n }

\* Two roots, declared in descending order.
C6_Witness ==
    /\ pc = "get_root_nodes"
    /\ Len(root_nodes) >= 2
    /\ \E i, j \in DOMAIN node_ids :
        /\ i < j
        /\ node_ids[i] > node_ids[j]
        /\ node_ids[i] \in Range(root_nodes)
        /\ node_ids[j] \in Range(root_nodes)

\* C7: for an id of the graph get_index returns an index and get_id of it
\* returns the id; the lookup table is injective, its keys are the graph's
\* nodes, and the weight stored at the index of an id is that id.
C7_IdRoundTrip ==
    pc = "get_id" =>
        LET q == graph.value
            t == q.lookup_table
        IN  /\ lookup.id \in Range(q.inner.nodes) =>
                /\ lookup.index.is_some
                /\ lookup.back = Some(lookup.id)
            /\ \A a, b \in DOMAIN t : t[a] = t[b] => a = b
            /\ DOMAIN t = Range(q.inner.nodes)
            /\ \A a \in DOMAIN t :
                /\ t[a] + 1 \in DOMAIN q.inner.nodes
                /\ q.inner.nodes[t[a] + 1] = a

\* The id looked up is a node of the graph and sits at an index above 0.
C7_Witness ==
    /\ pc = "get_id"
    /\ lookup.index.is_some
    /\ lookup.index.value >= 1
    /\ lookup.back = Some(lookup.id)

\* C14: a constructed graph holds exactly one edge for every distinct
\* (source, destination) pair of the input edge list, however often the list
\* repeats the pair, and no other edge; the validated data carries the input
\* edge list as it was handed in, repetitions included.
C14_EdgesInsertedOnce ==
    Constructed =>
        /\ valid.is_some => valid.value.edges = edges
        /\ graph.is_some =>
            /\ IdEdgesOf(graph.value) = Range(edges)
            /\ Len(graph.value.inner.edges) = Cardinality(Range(edges))
            /\ \A i, j \in DOMAIN graph.value.inner.edges :
                   graph.value.inner.edges[i] = graph.value.inner.edges[j] => i = j

\* An edge list that repeats a pair, accepted by both stages.
C14_Witness ==
    /\ Constructed
    /\ Len(edges) = 2
    /\ edges[1] = edges[2]
    /\ valid.is_some
    /\ Len(valid.value.edges) = 2
    /\ graph.is_some
    /\ Len(graph.value.inner.edges) = 1

(***************************************************************************)
(* Properties of QueryCollection, checked under SpecRegistry.              *)
(***************************************************************************)
\* C8 as stated: every add_queries call keeps every registered name and
\* leaves every previously registered entry unchanged.
C8_AllEntriesUnchanged ==
    [][ \A n \in DOMAIN query_map :
            /\ n \in DOMAIN query_map'
            /\ query_map'[n] = query_map[n] ]_vars

\* C8, amended: every add_queries call keeps every registered name and its
\* id, and leaves unchanged (same kind, id, dependency list) every entry whose
\* name is not the name of an entry of the new batch that the front end
\* accepts; an entry with such a name is replaced by the newly parsed Query.
C8_EntriesKeptUnlessReregistered ==
    [][ \A n \in DOMAIN query_map :
            /\ n \in DOMAIN query_map'
            /\ query_map'[n].id = query_map[n].id
            /\ n \notin last_parsed' => query_map'[n] = query_map[n]
            /\ n \in last_parsed' => query_map'[n].kind = "Query" ]_vars

\* A Query of an earlier batch and a table stub, after a later batch that
\* registered another name.
C8_Witness ==
    /\ last_parsed # {}
    /\ \E n \in DOMAIN query_map \ last_parsed : query_map[n].kind = "Query"
    /\ \E n \in DOMAIN query_map : query_map[n].kind = "TableQuery"

\* C9: the names of query_id_map are the keys of query_map, and the id both
\* record for a name is the hash of the name.
C9_RegistryAgrees ==
    /\ DOMAIN query_id_map.inner = DOMAIN query_map
    /\ \A n \in DOMAIN query_map :
        /\ query_map[n].id = xxh3_64(n)
        /\ n \in DOMAIN query_id_map.inner
        /\ query_id_map.inner[n] = xxh3_64(n)

\* Queries and a table stub registered, over more than one call.
C9_Witness ==
    /\ Cardinality(DOMAIN query_map) = MaxName
    /\ \E n \in DOMAIN query_map : query_map[n].kind = "TableQuery"
    /\ \E n \in DOMAIN query_map \ last_parsed : query_map[n].kind = "Query"
    /\ last_parsed # {}

\* What C10 says of a registry whose stubs stand for the names in the set T.
StubsAre(T) ==
    /\ \A n \in explicit :
        n \in DOMAIN query_map /\ query_map[n].kind = "Query"
    /\ \A n \in Names \ explicit :
        IF n \in T
        THEN /\ n \in DOMAIN query_map
             /\ query_map[n] = [kind |-> "TableQuery", id |-> xxh3_64(n), name |-> n]
        ELSE n \notin DOMAIN query_map
    /\ Cardinality(DOMAIN query_map) = Cardinality(explicit) + Cardinality(T)

\* C10 as stated: a name registered as a query is never stored as a
\* TableQuery, every other name referenced by a parsed entry is a TableQuery
\* with the hash of the name as id, and the size of the registry is the
\* number of explicit names plus the number of the other referenced names.
C10_StubForEveryReferencedName == StubsAre(referenced)

\* C10, amended: as stated, but the names that get a stub, and count in the
\* size, are the names in the dependency list of a Query that is stored when a
\* call's stub scan runs; a name referenced only by an entry that a later
\* entry of the same batch overwrites gets no stub.
C10_StubForEveryScannedName == StubsAre(scanned)

\* The last batch held a query referencing a query of the same batch, and a
\* query referencing a table.
C10_Witness ==
    /\ \E q, r \in last_parsed :
        /\ q # r
        /\ r \in Range(query_map[q].dependencies)
        /\ \E t \in Range(query_map[r].dependencies) :
               query_map[t].kind = "TableQuery"
    /\ Cardinality(DOMAIN query_map) = MaxName

\* C11: a call of add_queries with entries that fail to parse completes and
\* leaves the registry exactly as the same call without those entries does;
\* an entry stored under the name of a failing entry stays unchanged unless
\* the batch also holds an accepted entry of that name, and a failing entry
\* puts its name into the registry only as the stub of a stored Query's
\* dependency.
C11_FailedEntryDropped ==
    [][ /\ without_failed' = [query_map |-> query_map', query_id_map |-> query_id_map']
        /\ \A n \in last_failed' :
            /\ n \in DOMAIN query_map => query_map'[n] = query_map[n]
            /\ (n \notin DOMAIN query_map /\ n \in DOMAIN query_map') =>
                   /\ query_map'[n].kind = "TableQuery"
                   /\ \E q \in DOMAIN query_map' :
                          /\ query_map'[q].kind = "Query"
                          /\ n \in Range(query_map'[q].dependencies) ]_vars

\* The last batch held an entry that failed under the name of a stored Query
\* with a dependency, and an accepted entry that brought a new name.
C11_Witness ==
    /\ \E n \in last_failed :
           /\ n \in DOMAIN query_map
           /\ query_map[n].kind = "Query"
           /\ query_map[n].dependencies # << >>
    /\ last_parsed # {}

\* C13: an accepted entry whose name is a key already, from an earlier call
\* or from an earlier entry of the same batch, replaces the stored entry: the
\* name is stored as a Query with the hash of the name as id (the id it had)
\* and with the dependency list of the last accepted entry of that name, both
\* id maps record the name once, and a batch that only re-registers names,
\* with dependencies that are keys already, leaves the number of keys as is.
C13_LastWriteWins ==
    [][ /\ \A n \in last_parsed' :
            (n \in DOMAIN query_map \/ last_writes'[n].count > 1) =>
                /\ query_map'[n] = [kind |-> "Query", id |-> xxh3_64(n), name |-> n,
                                    dependencies |-> last_writes'[n].dependencies]
                /\ n \in DOMAIN query_map => query_map'[n].id = query_map[n].id
                /\ query_id_map'.inner[n] = xxh3_64(n)
                /\ query_id_map'.reverse[xxh3_64(n)] = n
        /\ ( /\ last_parsed' \subseteq DOMAIN query_map
             /\ \A n \in last_parsed' :
                    Range(last_writes'[n].dependencies) \subseteq DOMAIN query_map )
           => /\ Cardinality(DOMAIN query_map') = Cardinality(DOMAIN query_map)
              /\ Cardinality(DOMAIN query_id_map'.inner)
                     = Cardinality(DOMAIN query_id_map.inner)
              /\ Cardinality(DOMAIN query_id_map'.reverse)
                     = Cardinality(DOMAIN query_id_map.reverse) ]_vars

\* The last batch registered one name twice, and a name that an earlier call
\* had left as a table stub or as a Query; the stored entry of the first has
\* the dependency of its last write.
C13_Witness ==
    /\ \E n \in last_parsed :
        /\ last_writes[n].count > 1
        /\ last_writes[n].dependencies # << >>
        /\ query_map[n].dependencies = last_writes[n].dependencies
    /\ Cardinality(DOMAIN query_map) > Cardinality(last_parsed)

(***************************************************************************)
(* Properties of GraphMeta, checked under SpecGraphMeta.                   *)
(***************************************************************************)
\* The names stored as a Query.
StoredQueries == { n \in DOMAIN query_map : query_map[n].kind = "Query" }

\* The (dependency, dependent) pairs of ids that the registry stands for.
DependencyPairs ==
    UNION { { << xxh3_64(query_map[q].dependencies[i]), xxh3_64(q) >> :
                  i \in DOMAIN query_map[q].dependencies } : q \in StoredQueries }

\* The sum of the lengths of the dependency lists of the Queries named in S.
RECURSIVE DependencyCount(_)
DependencyCount(S) ==
    IF S = {} THEN 0
    ELSE LET q == CHOOSE x \in S : TRUE
         IN  Len(query_map[q].dependencies) + DependencyCount(S \ {q})

\* C12: the edge list generated from a registry holds one pair per entry of
\* the dependency list of every stored Query, the pair (id of the dependency,
\* id of the query), and nothing else; in a generated graph a node has an
\* incoming edge exactly when its registry entry is a Query with a dependency.
C12_EdgesFromDependencies ==
    pc = "GraphMeta_new" =>
        /\ Range(edges) = DependencyPairs
        /\ Len(edges) = DependencyCount(StoredQueries)
        /\ \A i \in DOMAIN edges :
               \A n \in DOMAIN query_map :
                   query_map[n].kind = "TableQuery" => edges[i][2] # xxh3_64(n)
        /\ graph.is_some =>
               \A n \in Range(graph.value.inner.nodes) :
                   (\E e \in IdEdgesOf(graph.value) : e[2] = n)
                   <=> \E q \in StoredQueries :
                           /\ xxh3_64(q) = n
                           /\ query_map[q].dependencies # << >>

\* A graph generated from a registry where a Query reads another Query and a
\* table.
C12_Witness ==
    /\ pc = "GraphMeta_new"
    /\ graph.is_some
    /\ \E q \in StoredQueries :
        \E d, t \in Range(query_map[q].dependencies) :
            /\ query_map[d].kind = "Query"
            /\ query_map[t].kind = "TableQuery"
            /\ << xxh3_64(d), xxh3_64(q) >> \in IdEdgesOf(graph.value)
            /\ << xxh3_64(t), xxh3_64(q) >> \in IdEdgesOf(graph.value)

\* C15: after every add_queries call of any sequence of calls every name in
\* the dependency list of every stored Query is a key of query_map and of
\* query_id_map, and every id in an edge generated from the registry is the
\* id of a registry entry.
C15_ClosedUnderDependencies ==
    /\ \A q \in StoredQueries :
        \A d \in Range(query_map[q].dependencies) :
            /\ d \in DOMAIN query_map
            /\ d \in DOMAIN query_id_map.inner
            /\ query_id_map.inner[d] = query_map[d].id
    /\ pc = "GraphMeta_new" =>
           \A i \in DOMAIN edges :
               \A k \in 1..2 :
                   \E n \in DOMAIN query_map : query_map[n].id = edges[i][k]

\* Edges generated from a registry that a re-registration has left with a
\* stub no stored Query reads, and with a Query that reads a stub and a Query.
C15_Witness ==
    /\ pc = "GraphMeta_new"
    /\ \E t \in DOMAIN query_map :
        /\ query_map[t].kind = "TableQuery"
        /\ \A q \in StoredQueries : t \notin Range(query_map[q].dependencies)
    /\ \E q \in StoredQueries :
        \E d, t \in Range(query_map[q].dependencies) :
            /\ d \in DOMAIN query_map
            /\ t \in DOMAIN query_map
            /\ query_map[d].kind = "Query"
            /\ query_map[t].kind = "TableQuery"
    /\ edges # << >>

\* The stored dependency relation: (d, q) when the Query q names d.
DependencyRelation ==
    { << d, q >> \in Names \X Names :
          q \in StoredQueries /\ d \in Range(query_map[q].dependencies) }

====
